---- MODULE Spec2Model ----
(***************************************************************************)
(* Chunked voxel world of src/main.rs: terrain generation per chunk,       *)
(* World lookup across chunk borders, face-visibility meshing, and the     *)
(* passes of main that build the world, update every chunk and collect the *)
(* draw buffers.                                                           *)
(*                                                                         *)
(* Floats: positions are kept in tenths (x - 0.5 is 10*x - 5, y + 0.4 is   *)
(* 10*y + 4); the other vertex fields (0.0, 1.0, 2.0, ...) are kept as the *)
(* integers they denote.  Noise values are kept in tenths too (0.6 is 6).  *)
(***************************************************************************)
EXTENDS Integers, Sequences, FiniteSets

----------------------------------------------------------------------------
(* Program constants *)

CHUNK_SIZE == 16

WATER_LEVEL == 60

CAVE_THRESHOLD == 6

(* Bounds of the model *)

\* main builds chunk_x in -8..8, chunk_y in 0..8, chunk_z in -8..8; the model
\* builds a window of that range: NumX, NumY and NumZ chunks along the axes,
\* around 0 in x and z and from ChunkYLo upwards in y
NumX == 2

NumY == 2

NumZ == 2

ChunkYLo == 2

\* a hash map of at most MaxPerm entries is iterated in every possible order,
\* a larger one in insertion order or its reverse
MaxPerm == 2

----------------------------------------------------------------------------
(* Types *)

BlockType == {"Air", "Grass", "Dirt", "Stone", "Water"}

Solid == {"Grass", "Dirt", "Stone"}

Local == 0 .. (CHUNK_SIZE - 1)

BlockPosition == Local \X Local \X Local

Faces == <<"front", "back", "top", "bottom", "right", "left">>

NoChunk == [position |-> <<>>]

----------------------------------------------------------------------------
(* i32 arithmetic used by the coordinate conversions *)

Abs(n) == IF n < 0 THEN -n ELSE n

\* Rust's `/` on i32: quotient truncated towards zero
TruncDiv(a, b) == IF a >= 0 THEN a \div b ELSE -((-a) \div b)

\* Rust's `%` on i32: remainder with the sign of the dividend
TruncRem(a, b) == a - b * TruncDiv(a, b)

\* faulty variant: the quotient of `/`, which rounds towards zero
div_euclid_trunc(a, b) == TruncDiv(a, b)

\* i32::div_euclid: quotient q with a = q*b + r and 0 <= r < |b|
div_euclid(a, b) ==
    LET q == TruncDiv(a, b)
    IN  IF TruncRem(a, b) < 0
        THEN (IF b > 0 THEN q - 1 ELSE q + 1)
        ELSE q

\* faulty variant: the remainder of `%`, negative for a negative dividend
rem_euclid_trunc(a, b) == TruncRem(a, b)

\* i32::rem_euclid: the non-negative remainder
rem_euclid(a, b) ==
    LET r == TruncRem(a, b)
    IN  IF r < 0 THEN r + Abs(b) ELSE r

----------------------------------------------------------------------------
(* State of the program *)

VARIABLES
    noise,          \* what the three Perlin samplers return
    world,          \* World
    pc,             \* position in main
    genIdx,         \* number of iterations done by the loops of lines 543-550
    positions,      \* the keys still to visit in the current pass
    chunk,          \* the chunk taken out of World for its update
    all_vertices,
    all_indices

vars == <<noise, world, pc, genIdx, positions, chunk, all_vertices, all_indices>>

----------------------------------------------------------------------------
(* Noise samplers (external crate): a noise field gives the surface height *)
(* of a column (main.rs line 77, already truncated to an integer) and the  *)
(* cave density of a cell in tenths.  A field is a default height, a       *)
(* height for some columns, and the cells whose density is low.            *)

\* faulty variant: the samplers are seeded with the number of chunks of World
HeightOf_seeded_by_world(nf, world_x, world_z) ==
    Cardinality(DOMAIN world.chunks)
        + (IF <<world_x, world_z>> \in DOMAIN nf.hcol
           THEN nf.hcol[<<world_x, world_z>>]
           ELSE nf.hdef)

HeightOf(nf, world_x, world_z) ==
    IF <<world_x, world_z>> \in DOMAIN nf.hcol
    THEN nf.hcol[<<world_x, world_z>>]
    ELSE nf.hdef

CaveValue(nf, world_x, world_y, world_z) ==
    IF <<world_x, world_y, world_z>> \in nf.low THEN 6 ELSE 7

\* faulty variant: the cave test comes before the height test, so a cave
\* carves water too
DecideBlock_cave_first(height, cave_value, world_y) ==
    IF cave_value > CAVE_THRESHOLD
    THEN "Air"
    ELSE IF world_y < height
         THEN IF world_y = height - 1
              THEN "Grass"
              ELSE IF world_y > height - 4
                   THEN "Dirt"
                   ELSE "Stone"
         ELSE IF world_y < WATER_LEVEL
              THEN "Water"
              ELSE "Air"

\* the block type decided for one cell (main.rs lines 90-108)
DecideBlock(height, cave_value, world_y) ==
    IF world_y < height
    THEN IF cave_value > CAVE_THRESHOLD
         THEN "Air"
         ELSE IF world_y = height - 1
              THEN "Grass"
              ELSE IF world_y > height - 4
                   THEN "Dirt"
                   ELSE "Stone"
    ELSE IF world_y < WATER_LEVEL
         THEN "Water"
         ELSE "Air"

\* Chunk::generate_terrain: the blocks of the chunk at `position`
generate_terrain(nf, position) ==
    [x \in Local |-> [y \in Local |-> [z \in Local |->
        LET world_x == position[1] * CHUNK_SIZE + x
            world_y == position[2] * CHUNK_SIZE + y
            world_z == position[3] * CHUNK_SIZE + z
        IN  DecideBlock(HeightOf(nf, world_x, world_z),
                        CaveValue(nf, world_x, world_y, world_z),
                        world_y)]]]

\* Chunk::new
NewChunk(nf, position) ==
    [position       |-> position,
     blocks         |-> generate_terrain(nf, position),
     visible_blocks |-> <<>>,
     vertices       |-> <<>>,
     indices        |-> <<>>,
     vertex_count   |-> 0]

----------------------------------------------------------------------------
(* World *)

\* World::new
NewWorld == [chunks |-> <<>>]

ChunkOfWorld(world_x, world_y, world_z) ==
    <<div_euclid(world_x, CHUNK_SIZE),
      div_euclid(world_y, CHUNK_SIZE),
      div_euclid(world_z, CHUNK_SIZE)>>

LocalOfWorld(world_x, world_y, world_z) ==
    <<rem_euclid(world_x, CHUNK_SIZE),
      rem_euclid(world_y, CHUNK_SIZE),
      rem_euclid(world_z, CHUNK_SIZE)>>

\* World::get_block
get_block(w, world_x, world_y, world_z) ==
    LET key == ChunkOfWorld(world_x, world_y, world_z)
    IN  IF key \in DOMAIN w.chunks
        THEN LET l == LocalOfWorld(world_x, world_y, world_z)
             IN  w.chunks[key].blocks[l[1]][l[2]][l[3]]
        ELSE "Air"

\* faulty variant: an entry already under the key is kept
MapInsert_keep(m, k, v) ==
    IF k \in DOMAIN m THEN m ELSE [q \in (DOMAIN m) \cup {k} |-> IF q = k THEN v ELSE m[q]]

\* HashMap::insert
MapInsert(m, k, v) == [q \in (DOMAIN m) \cup {k} |-> IF q = k THEN v ELSE m[q]]

\* faulty variant: the entry stays in the map
MapRemove_keep(m, k) == m

\* HashMap::remove
MapRemove(m, k) == [q \in (DOMAIN m) \ {k} |-> m[q]]

\* World::add_chunk
add_chunk(w, c) == [w EXCEPT !.chunks = MapInsert(w.chunks, c.position, c)]

----------------------------------------------------------------------------
(* Face visibility *)

\* faulty variant: right and left test each other's neighbour
CheckPos_mirrored(world_x, world_y, world_z, face) ==
    CASE face = "front"  -> <<world_x, world_y, world_z + 1>>
      [] face = "back"   -> <<world_x, world_y, world_z - 1>>
      [] face = "top"    -> <<world_x, world_y + 1, world_z>>
      [] face = "bottom" -> <<world_x, world_y - 1, world_z>>
      [] face = "right"  -> <<world_x - 1, world_y, world_z>>
      [] face = "left"   -> <<world_x + 1, world_y, world_z>>

\* the position tested for a face (main.rs lines 210-218)
CheckPos(world_x, world_y, world_z, face) ==
    CASE face = "front"  -> <<world_x, world_y, world_z + 1>>
      [] face = "back"   -> <<world_x, world_y, world_z - 1>>
      [] face = "top"    -> <<world_x, world_y + 1, world_z>>
      [] face = "bottom" -> <<world_x, world_y - 1, world_z>>
      [] face = "right"  -> <<world_x + 1, world_y, world_z>>
      [] face = "left"   -> <<world_x - 1, world_y, world_z>>

\* faulty variant: a face of Water is drawn towards Air only
FaceRule_water_to_air(current_block, neighbor_block) ==
    IF current_block = "Water"
    THEN neighbor_block = "Air"
    ELSE neighbor_block = "Air" \/ neighbor_block = "Water"

\* the rule of main.rs lines 224-234 on the two blocks read from World
FaceRule(current_block, neighbor_block) ==
    IF current_block = "Water"
    THEN neighbor_block = "Air" \/ neighbor_block # "Water"
    ELSE neighbor_block = "Air" \/ neighbor_block = "Water"

should_render_face(w, world_x, world_y, world_z, face) ==
    LET check_pos      == CheckPos(world_x, world_y, world_z, face)
        current_block  == get_block(w, world_x, world_y, world_z)
        neighbor_block == get_block(w, check_pos[1], check_pos[2], check_pos[3])
    IN  IF \A i \in 1..Len(Faces) : Faces[i] # face
        THEN TRUE
        ELSE FaceRule(current_block, neighbor_block)

----------------------------------------------------------------------------
(* Geometry *)

\* faulty variant: the back face is wound the other way round
Corners_back_clockwise(face) ==
    CASE face = "front"  -> << <<-5, -5,  5, 0, 1,  0>>, << 5, -5,  5, 1, 1,  1>>,
                               << 5,  5,  5, 1, 0,  2>>, <<-5,  5,  5, 0, 0,  3>> >>
      [] face = "back"   -> << <<-5, -5, -5, 1, 1,  4>>, << 5, -5, -5, 0, 1,  5>>,
                               << 5,  5, -5, 0, 0,  6>>, <<-5,  5, -5, 1, 0,  7>> >>
      [] face = "top"    -> << <<-5,  5, -5, 0, 0,  8>>, <<-5,  5,  5, 1, 0,  9>>,
                               << 5,  5,  5, 1, 1, 10>>, << 5,  5, -5, 0, 1, 11>> >>
      [] face = "bottom" -> << <<-5, -5, -5, 0, 0, 12>>, << 5, -5, -5, 1, 0, 13>>,
                               << 5, -5,  5, 1, 1, 14>>, <<-5, -5,  5, 0, 1, 15>> >>
      [] face = "right"  -> << << 5, -5, -5, 0, 1, 16>>, << 5,  5, -5, 0, 0, 17>>,
                               << 5,  5,  5, 1, 0, 18>>, << 5, -5,  5, 1, 1, 19>> >>
      [] face = "left"   -> << <<-5, -5, -5, 1, 1, 20>>, <<-5, -5,  5, 0, 1, 21>>,
                               <<-5,  5,  5, 0, 0, 22>>, <<-5,  5, -5, 1, 0, 23>> >>

\* the four corners of a face of a solid block, as written in the Grass, Dirt
\* and Stone arms: offsets from the block centre in tenths, s, t, corner index
Corners(face) ==
    CASE face = "front"  -> << <<-5, -5,  5, 0, 1,  0>>, << 5, -5,  5, 1, 1,  1>>,
                               << 5,  5,  5, 1, 0,  2>>, <<-5,  5,  5, 0, 0,  3>> >>
      [] face = "back"   -> << <<-5, -5, -5, 1, 1,  4>>, <<-5,  5, -5, 1, 0,  5>>,
                               << 5,  5, -5, 0, 0,  6>>, << 5, -5, -5, 0, 1,  7>> >>
      [] face = "top"    -> << <<-5,  5, -5, 0, 0,  8>>, <<-5,  5,  5, 1, 0,  9>>,
                               << 5,  5,  5, 1, 1, 10>>, << 5,  5, -5, 0, 1, 11>> >>
      [] face = "bottom" -> << <<-5, -5, -5, 0, 0, 12>>, << 5, -5, -5, 1, 0, 13>>,
                               << 5, -5,  5, 1, 1, 14>>, <<-5, -5,  5, 0, 1, 15>> >>
      [] face = "right"  -> << << 5, -5, -5, 0, 1, 16>>, << 5,  5, -5, 0, 0, 17>>,
                               << 5,  5,  5, 1, 0, 18>>, << 5, -5,  5, 1, 1, 19>> >>
      [] face = "left"   -> << <<-5, -5, -5, 1, 1, 20>>, <<-5, -5,  5, 0, 1, 21>>,
                               <<-5,  5,  5, 0, 0, 22>>, <<-5,  5, -5, 1, 0, 23>> >>

\* the corners of the one face a Water block can emit (main.rs lines 433-438)
WaterCorners ==
    << <<-5, 4, -5, 0, 0,  8>>, <<-5, 4,  5, 1, 0,  9>>,
       << 5, 4,  5, 1, 1, 10>>, << 5, 4, -5, 0, 1, 11>> >>

\* faulty variant: Water is drawn with the layer of Stone
TextureLayer_water_as_stone(block_type, face) ==
    CASE block_type = "Grass" ->
            (IF face = "top" THEN 0 ELSE IF face = "bottom" THEN 2 ELSE 1)
      [] block_type = "Dirt"  -> 2
      [] block_type = "Stone" -> 3
      [] block_type = "Water" -> 3

\* faulty variant: the bottom of Grass is drawn with the layer of its sides
TextureLayer_grass_bottom_as_side(block_type, face) ==
    CASE block_type = "Grass" -> (IF face = "top" THEN 0 ELSE 1)
      [] block_type = "Dirt"  -> 2
      [] block_type = "Stone" -> 3
      [] block_type = "Water" -> 4

\* texture layer of a face of a block type (seventh float of each vertex)
TextureLayer(block_type, face) ==
    CASE block_type = "Grass" ->
            (IF face = "top" THEN 0 ELSE IF face = "bottom" THEN 2 ELSE 1)
      [] block_type = "Dirt"  -> 2
      [] block_type = "Stone" -> 3
      [] block_type = "Water" -> 4

\* one quad: x, y, z are the block centre in tenths
Quad(corners, x, y, z, layer) ==
    [i \in 1..4 |->
        <<x + corners[i][1], y + corners[i][2], z + corners[i][3],
          corners[i][4], corners[i][5], corners[i][6], layer, 1>>]

\* the faces a block type tests, in the order its arm tests them
FacesOf(block_type) ==
    CASE block_type = "Air"   -> <<>>
      [] block_type = "Water" -> <<"top">>
      [] OTHER                -> Faces

RECURSIVE CubeFaces(_, _, _, _, _, _, _, _, _)
CubeFaces(faces, i, x, y, z, block_type, w, wp, vertices) ==
    IF i > Len(faces)
    THEN vertices
    ELSE LET face == faces[i]
             quad == Quad(IF block_type = "Water" THEN WaterCorners ELSE Corners(face),
                          x, y, z, TextureLayer(block_type, face))
         IN  CubeFaces(faces, i + 1, x, y, z, block_type, w, wp,
                 IF should_render_face(w, wp[1], wp[2], wp[3], face)
                 THEN vertices \o quad
                 ELSE vertices)

generate_cube_vertices(x, y, z, block_type, w, world_x, world_y, world_z) ==
    CubeFaces(FacesOf(block_type), 1, x, y, z, block_type, w,
              <<world_x, world_y, world_z>>, <<>>)

RECURSIVE IndicesFrom(_, _, _, _)
IndicesFrom(vertex_offset, vertex_count, i, indices) ==
    IF i >= vertex_count
    THEN indices
    ELSE IndicesFrom(vertex_offset, vertex_count, i + 4,
            indices \o << <<vertex_offset + i,
                            vertex_offset + i + 1,
                            vertex_offset + i + 2>>,
                          <<vertex_offset + i + 2,
                            vertex_offset + i + 3,
                            vertex_offset + i>> >>)

\* faulty variant: only the first triangle of each quad
RECURSIVE IndicesFrom_one(_, _, _, _)
IndicesFrom_one(vertex_offset, vertex_count, i, indices) ==
    IF i >= vertex_count
    THEN indices
    ELSE IndicesFrom_one(vertex_offset, vertex_count, i + 4,
            indices \o << <<vertex_offset + i,
                            vertex_offset + i + 1,
                            vertex_offset + i + 2>> >>)

generate_indices_one_triangle(vertex_offset, vertex_count) ==
    IndicesFrom_one(vertex_offset, vertex_count, 0, <<>>)

\* faulty variant: the second triangle of a quad runs into the next quad
RECURSIVE IndicesFrom_next(_, _, _, _)
IndicesFrom_next(vertex_offset, vertex_count, i, indices) ==
    IF i >= vertex_count
    THEN indices
    ELSE IndicesFrom_next(vertex_offset, vertex_count, i + 4,
            indices \o << <<vertex_offset + i,
                            vertex_offset + i + 1,
                            vertex_offset + i + 2>>,
                          <<vertex_offset + i + 2,
                            vertex_offset + i + 3,
                            vertex_offset + i + 4>> >>)

generate_indices_into_next_quad(vertex_offset, vertex_count) ==
    IndicesFrom_next(vertex_offset, vertex_count, 0, <<>>)

\* faulty variant: the triangles of every block start at index 0
generate_indices_without_offset(vertex_offset, vertex_count) ==
    IndicesFrom(0, vertex_count, 0, <<>>)

generate_indices_for_vertices(vertex_offset, vertex_count) ==
    IndicesFrom(vertex_offset, vertex_count, 0, <<>>)

----------------------------------------------------------------------------
(* Iteration order of a HashMap: unspecified by the standard library *)

\* order of the triples used as keys: the order the scan loops insert them in
KeyLess(a, b) ==
    \/ a[1] < b[1]
    \/ a[1] = b[1] /\ a[2] < b[2]
    \/ a[1] = b[1] /\ a[2] = b[2] /\ a[3] < b[3]

RECURSIVE SortInts(_)
SortInts(S) ==
    IF S = {}
    THEN <<>>
    ELSE LET m == CHOOSE k \in S : \A o \in S : k <= o
         IN  <<m>> \o SortInts(S \ {m})

RECURSIVE Concat(_, _)
Concat(ss, i) == IF i > Len(ss) THEN <<>> ELSE ss[i] \o Concat(ss, i + 1)

\* the keys of S sorted by KeyLess: by x, then y, then z
InsertionOrder(S) ==
    LET row(Sx, x, y) ==
            LET zs == SortInts({k[3] : k \in {o \in Sx : o[2] = y}})
            IN  [i \in 1..Len(zs) |-> <<x, y, zs[i]>>]
        slab(x) ==
            LET Sx == {o \in S : o[1] = x}
                ys == SortInts({k[2] : k \in Sx})
            IN  Concat([i \in 1..Len(ys) |-> row(Sx, x, ys[i])], 1)
        xs == SortInts({k[1] : k \in S})
    IN  Concat([i \in 1..Len(xs) |-> slab(xs[i])], 1)

Reverse(s) == [i \in 1..Len(s) |-> s[Len(s) + 1 - i]]

IterationOrders(S) ==
    IF Cardinality(S) <= MaxPerm
    THEN {f \in [1..Cardinality(S) -> S] : \A i, j \in 1..Cardinality(S) : i # j => f[i] # f[j]}
    ELSE {InsertionOrder(S), Reverse(InsertionOrder(S))}

----------------------------------------------------------------------------
(* Chunk::update *)

\* i32 -> f32 (`as f32`): exact below 2^24, else rounded to the 24-bit
\* mantissa (ties to even)
RECURSIVE Ulp(_, _)
Ulp(a, u) == IF a \div u < 16777216 THEN u ELSE Ulp(a, 2 * u)

F32OfI32(n) ==
    LET a   == Abs(n)
        u   == Ulp(a, 1)
        q   == a \div u
        r   == a % u
        up  == 2 * r > u \/ (2 * r = u /\ q % 2 = 1)
        m   == IF up THEN (q + 1) * u ELSE q * u
    IN  IF n < 0 THEN -m ELSE m

\* f32 + f32 of two whole numbers: the sum rounded to f32
F32Add(a, b) == F32OfI32(a + b)

\* f32 -> i32 (`as i32`) of a whole number: itself, saturating
I32OfF32(f) ==
    IF f > 2147483647 THEN 2147483647 ELSE f

\* first pass (main.rs lines 121-144): the blocks entered in visible_blocks
VisibleBlocks(c, w) ==
    LET vis == {p \in BlockPosition :
                 /\ c.blocks[p[1]][p[2]][p[3]] # "Air"
                 /\ LET world_x == c.position[1] * CHUNK_SIZE + p[1]
                        world_y == c.position[2] * CHUNK_SIZE + p[2]
                        world_z == c.position[3] * CHUNK_SIZE + p[3]
                    IN  \E i \in 1..Len(Faces) :
                          should_render_face(w, world_x, world_y, world_z, Faces[i])}
    IN  [p \in vis |-> c.blocks[p[1]][p[2]][p[3]]]

\* one iteration of the second pass (main.rs lines 148-168), for the entry
\* of visible_blocks at block_pos when self.vertex_count is vertex_count:
\* the vertices and the indices it appends
EmitBlock(c, w, block_pos, vertex_count) ==
    LET block_type == c.visible_blocks[block_pos]
        world_x    == F32Add(F32OfI32(c.position[1] * CHUNK_SIZE), F32OfI32(block_pos[1]))
        world_y    == F32Add(F32OfI32(c.position[2] * CHUNK_SIZE), F32OfI32(block_pos[2]))
        world_z    == F32Add(F32OfI32(c.position[3] * CHUNK_SIZE), F32OfI32(block_pos[3]))
        cube_vertices == generate_cube_vertices(
                           10 * world_x, 10 * world_y, 10 * world_z, block_type, w,
                           I32OfF32(world_x), I32OfF32(world_y), I32OfF32(world_z))
    IN  IF cube_vertices # <<>>
        THEN [vertices |-> cube_vertices,
              indices  |-> generate_indices_for_vertices(vertex_count, Len(cube_vertices))]
        ELSE [vertices |-> <<>>, indices |-> <<>>]

\* second pass (main.rs lines 146-169) over the entries order[lo..hi] when
\* self.vertex_count is vertex_count: what the iterations lo..mid and then
\* the iterations mid+1..hi append; vertex_count grows by the number of
\* vertices appended
RECURSIVE EmitBlocks(_, _, _, _, _, _)
EmitBlocks(c, w, order, lo, hi, vertex_count) ==
    IF lo > hi
    THEN [vertices |-> <<>>, indices |-> <<>>]
    ELSE IF lo = hi
         THEN EmitBlock(c, w, order[lo], vertex_count)
         ELSE LET mid   == (lo + hi) \div 2
                  first == EmitBlocks(c, w, order, lo, mid, vertex_count)
                  rest  == EmitBlocks(c, w, order, mid + 1, hi,
                                      vertex_count + Len(first.vertices))
              IN  [vertices |-> first.vertices \o rest.vertices,
                   indices  |-> first.indices \o rest.indices]

\* faulty variant: the first pass moves the blocks out of the chunk
ScanBlocks_takes_blocks(c, w) ==
    [c EXCEPT !.visible_blocks = VisibleBlocks(c, w),
              !.vertices = <<>>,
              !.indices = <<>>,
              !.vertex_count = 0,
              !.blocks = [x \in Local |-> [y \in Local |-> [z \in Local |-> "Air"]]]]

\* Chunk::update up to the end of its first pass (main.rs lines 115-144)
ScanBlocks(c, w) ==
    [c EXCEPT !.visible_blocks = VisibleBlocks(c, w),
              !.vertices = <<>>,
              !.indices = <<>>,
              !.vertex_count = 0]

\* Chunk::update: the chunks it can leave behind, one for each order in which
\* the second pass can iterate visible_blocks
update(c, w) ==
    LET scanned == ScanBlocks(c, w)
    IN  {LET emitted == EmitBlocks(scanned, w, order, 1, Len(order), scanned.vertex_count)
         IN  [scanned EXCEPT !.vertices = @ \o emitted.vertices,
                             !.indices = @ \o emitted.indices,
                             !.vertex_count = @ + Len(emitted.vertices)] :
            order \in IterationOrders(DOMAIN scanned.visible_blocks)}

----------------------------------------------------------------------------
(* Noise fields the model runs the program on *)

DefaultHeight == 64 + 32 + 8

\* the cases run: a shape of cells at an anchor, as blocks of a kind.  The
\* anchors lie at the corner where eight chunks meet (below and above the
\* water level), inside a chunk, and at the two outer corners of the window.
Cases ==
    {<<-1, 47, -1, "single", "Water">>,
     <<-1, 47, -1, "single", "Stone">>,
     <<-1, 47, -1, "single", "Grass">>,
     <<-1, 47, -1, "pairx", "Shore">>,
     <<-1, 47, -1, "pairz", "Shore">>,
     <<-1, 47, -1, "pairy", "Stone">>,
     <<-1, 47, -1, "cross", "Stone">>,
     <<-1, 60, -1, "single", "Grass">>,
     <<-1, 60, -1, "pairx", "Grass">>,
     <<-1, 60, -1, "pairz", "Dirt">>,
     <<1, 60, 1, "single", "Dirt">>,
     <<1, 60, 1, "pairx", "Stone">>,
     <<1, 60, 1, "pairy", "Dirt">>,
     <<1, 60, 1, "pairz", "Grass">>,
     <<1, 50, 1, "cross", "Stone">>,
     <<15, 63, 15, "single", "Grass">>,
     <<-16, 32, -16, "single", "Stone">>}

ShapeCells(a, shape) ==
    CASE shape = "single" -> {a}
      [] shape = "pairx"  -> {a, <<a[1] + 1, a[2], a[3]>>}
      [] shape = "pairy"  -> {a, <<a[1], a[2] + 1, a[3]>>}
      [] shape = "pairz"  -> {a, <<a[1], a[2], a[3] + 1>>}
      [] shape = "cross"  -> {a, <<a[1] + 1, a[2], a[3]>>, <<a[1] - 1, a[2], a[3]>>,
                                 <<a[1], a[2] + 1, a[3]>>, <<a[1], a[2] - 1, a[3]>>,
                                 <<a[1], a[2], a[3] + 1>>, <<a[1], a[2], a[3] - 1>>}

\* a field that leaves the cells of a shape at anchor a, as blocks of a kind,
\* in an otherwise carved-out world
Field(a, shape, kind) ==
    LET cells   == ShapeCells(a, shape)
        cols    == {<<c[1], c[3]>> : c \in cells}
        ys(col) == {c[2] : c \in {d \in cells : d[1] = col[1] /\ d[3] = col[2]}}
        top(col)    == CHOOSE y \in ys(col) : \A o \in ys(col) : o <= y
        bottom(col) == CHOOSE y \in ys(col) : \A o \in ys(col) : o >= y
        shore   == cols \ {<<a[1], a[3]>>}
    IN  [hdef |-> DefaultHeight,
         hcol |-> CASE kind = "Stone" -> <<>>
                    [] kind = "Dirt"  -> [col \in cols |-> top(col) + 2]
                    [] kind = "Grass" -> [col \in cols |-> top(col) + 1]
                    [] kind = "Water" -> [col \in cols |-> bottom(col)]
                    [] kind = "Shore" -> [col \in shore |-> bottom(col)],
         low  |-> cells]

NoiseFields == {Field(<<c[1], c[2], c[3]>>, c[4], c[5]) : c \in Cases}

----------------------------------------------------------------------------
(* main: world construction, update pass, collection pass *)

ChunkXLo == -(NumX \div 2)

ChunkZLo == -(NumZ \div 2)

NumChunks == NumX * NumY * NumZ

\* the chunk position of iteration i (from 0) of the nested loops over
\* chunk_x, chunk_y, chunk_z
RangePos(i) ==
    <<ChunkXLo + (i \div (NumY * NumZ)), ChunkYLo + ((i \div NumZ) % NumY), ChunkZLo + (i % NumZ)>>

ChunkRange == {RangePos(i) : i \in 0 .. (NumChunks - 1)}

\* faulty variant: the update pass starts after the first chunk
GenDoneAfterFirst == genIdx >= 1

\* the loops of lines 543-550 have run to their end
GenDone == genIdx >= NumChunks

Init ==
    /\ noise \in NoiseFields
    /\ world = NewWorld
    /\ pc = "generate"
    /\ genIdx = 0
    /\ positions = <<>>
    /\ chunk = NoChunk
    /\ all_vertices = <<>>
    /\ all_indices = <<>>

\* one iteration of lines 546-547
Generate ==
    /\ pc = "generate"
    /\ ~GenDone
    /\ world' = add_chunk(world, NewChunk(noise, RangePos(genIdx)))
    /\ genIdx' = genIdx + 1
    /\ UNCHANGED <<noise, pc, positions, chunk, all_vertices, all_indices>>

\* line 557: the keys of World, in the order the map iterates them
StartUpdatePass ==
    /\ pc = "generate"
    /\ GenDone
    /\ \E order \in IterationOrders(DOMAIN world.chunks) : positions' = order
    /\ pc' = "update_pass"
    /\ UNCHANGED <<noise, world, genIdx, chunk, all_vertices, all_indices>>

\* lines 560-566: the chunk is taken out of World
TakeChunk ==
    /\ pc = "update_pass"
    /\ positions # <<>>
    /\ LET pos    == Head(positions)
           blocks == world.chunks[pos].blocks
       IN  /\ chunk' = [world.chunks[pos] EXCEPT !.blocks = blocks]
           /\ world' = [world EXCEPT !.chunks = MapRemove(world.chunks, pos)]
    /\ pc' = "removed"
    /\ UNCHANGED <<noise, genIdx, positions, all_vertices, all_indices>>

\* line 567
UpdateChunk ==
    /\ pc = "removed"
    /\ chunk' \in update(chunk, world)
    /\ pc' = "updated"
    /\ UNCHANGED <<noise, world, genIdx, positions, all_vertices, all_indices>>

\* faulty variant: the chunk is put back but the pass stays on its position
PutBack_same_position ==
    /\ pc = "updated"
    /\ world' = [world EXCEPT !.chunks = MapInsert(world.chunks, Head(positions), chunk)]
    /\ chunk' = NoChunk
    /\ pc' = "update_pass"
    /\ UNCHANGED <<noise, genIdx, positions, all_vertices, all_indices>>

\* line 570
PutBack ==
    /\ pc = "updated"
    /\ world' = [world EXCEPT !.chunks = MapInsert(world.chunks, Head(positions), chunk)]
    /\ chunk' = NoChunk
    /\ positions' = Tail(positions)
    /\ pc' = "update_pass"
    /\ UNCHANGED <<noise, genIdx, all_vertices, all_indices>>

\* line 574: the keys of World again
StartCollect ==
    /\ pc = "update_pass"
    /\ positions = <<>>
    /\ \E order \in IterationOrders(DOMAIN world.chunks) : positions' = order
    /\ pc' = "collect"
    /\ UNCHANGED <<noise, world, genIdx, chunk, all_vertices, all_indices>>

\* faulty variant: the triangles are copied as they are
OffsetIndices_unmoved(indices, vertex_offset) == indices

\* the triangles of a chunk moved by vertex_offset (lines 579-585)
OffsetIndices(indices, vertex_offset) ==
    [i \in 1..Len(indices) |->
        <<indices[i][1] + vertex_offset,
          indices[i][2] + vertex_offset,
          indices[i][3] + vertex_offset>>]

\* one iteration of lines 575-586
CollectChunk ==
    /\ pc = "collect"
    /\ positions # <<>>
    /\ LET pos == Head(positions)
       IN  IF pos \in DOMAIN world.chunks
           THEN LET c             == world.chunks[pos]
                    vertex_offset == Len(all_vertices)
                IN  /\ all_vertices' = all_vertices \o c.vertices
                    /\ all_indices' = all_indices \o OffsetIndices(c.indices, vertex_offset)
           ELSE UNCHANGED <<all_vertices, all_indices>>
    /\ positions' = Tail(positions)
    /\ UNCHANGED <<noise, world, pc, genIdx, chunk>>

\* the buffers are complete and handed to the graphics layer (lines 589-604)
FinishCollect ==
    /\ pc = "collect"
    /\ positions = <<>>
    /\ pc' = "done"
    /\ UNCHANGED <<noise, world, genIdx, positions, chunk, all_vertices, all_indices>>

Next ==
    \/ Generate
    \/ StartUpdatePass
    \/ TakeChunk
    \/ UpdateChunk
    \/ PutBack
    \/ StartCollect
    \/ CollectChunk
    \/ FinishCollect

Spec == Init /\ [][Next]_vars

\* main with a caller that runs Chunk::update a second time on the chunk it
\* holds, World and blocks unchanged
UpdateAgain ==
    /\ pc = "updated"
    /\ chunk' \in update(chunk, world)
    /\ UNCHANGED <<noise, world, pc, genIdx, positions, all_vertices, all_indices>>

NextRemesh == Next \/ UpdateAgain

SpecRemesh == Init /\ [][NextRemesh]_vars

----------------------------------------------------------------------------
(* The operations of Chunk and World under any caller: Chunk::new,         *)
(* World::add_chunk, taking a chunk out of World, Chunk::update.  A caller *)
(* holds at most one chunk outside of World, as main does.                 *)

\* the chunk positions the caller uses: two chunks stacked across the water
\* level and a lateral neighbour
ApiPositions == {<<-1, 2, -1>>, <<-1, 3, -1>>, <<0, 3, -1>>}

\* a field with four columns of surface heights around the water level
\* whose cells alternate between low and high density, in an otherwise
\* carved-out world
TerraceField ==
    LET cols == {<<-1, -1>>, <<-2, -1>>, <<-1, -2>>, <<-2, -2>>}
    IN  [hdef |-> DefaultHeight,
         hcol |-> [col \in cols |-> WATER_LEVEL + col[1] + 2 * col[2] + 1],
         low  |-> {<<col[1], y, col[2]>> : col \in cols, y \in 44 .. 63}
                    \ {<<col[1], y, col[2]>> : col \in cols,
                                               y \in {45, 49, 53, 54, 56, 59, 62}}]

\* the field of a flat world without caves: surface height 8 in every
\* column, low density in every cell of chunk (0,0,0)
FlatField == [hdef |-> 8, hcol |-> <<>>, low |-> BlockPosition]

ApiFields ==
    {TerraceField,
     FlatField,
     Field(<<-1, 47, -1>>, "single", "Water"),
     Field(<<-1, 47, -1>>, "pairy", "Stone"),
     Field(<<-1, 48, -1>>, "pairx", "Shore"),
     Field(<<-1, 60, -1>>, "pairx", "Grass"),
     Field(<<-1, 60, -1>>, "cross", "Dirt")}

\* in the flat world the caller uses the chunk at the origin alone
ApiPositionsOf(nf) == IF nf = FlatField THEN {<<0, 0, 0>>} ELSE ApiPositions

ApiInit ==
    /\ noise \in ApiFields
    /\ world = NewWorld
    /\ pc = "api"
    /\ genIdx = 0
    /\ positions = <<>>
    /\ chunk = NoChunk
    /\ all_vertices = <<>>
    /\ all_indices = <<>>

\* let chunk = Chunk::new(position)
ApiNew ==
    /\ pc = "api"
    /\ chunk = NoChunk
    /\ \E position \in ApiPositionsOf(noise) : chunk' = NewChunk(noise, position)
    /\ UNCHANGED <<noise, world, pc, genIdx, positions, all_vertices, all_indices>>

\* world.add_chunk(chunk)
ApiAdd ==
    /\ pc = "api"
    /\ chunk # NoChunk
    /\ world' = add_chunk(world, chunk)
    /\ chunk' = NoChunk
    /\ UNCHANGED <<noise, pc, genIdx, positions, all_vertices, all_indices>>

\* let chunk = world.chunks.remove(&position)
ApiTake ==
    /\ pc = "api"
    /\ chunk = NoChunk
    /\ \E position \in DOMAIN world.chunks :
          /\ chunk' = world.chunks[position]
          /\ world' = [world EXCEPT !.chunks = MapRemove(@, position)]
    /\ UNCHANGED <<noise, pc, genIdx, positions, all_vertices, all_indices>>

\* chunk.update(&world)
ApiUpdate ==
    /\ pc = "api"
    /\ chunk # NoChunk
    /\ chunk' \in update(chunk, world)
    /\ UNCHANGED <<noise, world, pc, genIdx, positions, all_vertices, all_indices>>

ApiNext ==
    \/ ApiNew
    \/ ApiAdd
    \/ ApiTake
    \/ ApiUpdate

SpecApi == ApiInit /\ [][ApiNext]_vars

----------------------------------------------------------------------------
(* Helpers of the properties *)

WorldPos(key, p) ==
    <<key[1] * CHUNK_SIZE + p[1], key[2] * CHUNK_SIZE + p[2], key[3] * CHUNK_SIZE + p[3]>>

BlockAt(w, wp) == get_block(w, wp[1], wp[2], wp[3])

\* the update pass of main is over: every chunk is meshed and back in World
UpdatePassOver == pc \in {"collect", "done"}

\* the block at a world position as it is stored, for a chunk c held outside
\* of World w: in c's own blocks inside c, in World elsewhere (\div and % of
\* TLA+ are the floor division and the non-negative remainder)
StoredBlock(c, w, wp) ==
    LET key == <<wp[1] \div CHUNK_SIZE, wp[2] \div CHUNK_SIZE, wp[3] \div CHUNK_SIZE>>
        l   == <<wp[1] % CHUNK_SIZE, wp[2] % CHUNK_SIZE, wp[3] % CHUNK_SIZE>>
    IN  IF key = c.position
        THEN c.blocks[l[1]][l[2]][l[3]]
        ELSE IF key \in DOMAIN w.chunks
             THEN w.chunks[key].blocks[l[1]][l[2]][l[3]]
             ELSE "Air"

\* the direction a face looks in: front=+z, back=-z, top=+y, bottom=-y,
\* right=+x, left=-x
FaceDir(face) ==
    CASE face = "front"  -> <<0, 0, 1>>
      [] face = "back"   -> <<0, 0, -1>>
      [] face = "top"    -> <<0, 1, 0>>
      [] face = "bottom" -> <<0, -1, 0>>
      [] face = "right"  -> <<1, 0, 0>>
      [] face = "left"   -> <<-1, 0, 0>>

Plus(a, d) == <<a[1] + d[1], a[2] + d[2], a[3] + d[3]>>

\* the six world positions next to wp
Neighbours(wp) == {Plus(wp, FaceDir(Faces[i])) : i \in 1..Len(Faces)}

\* the local positions on the faces of a chunk
BorderPositions ==
    {p \in BlockPosition : \E k \in 1..3 : p[k] = 0 \/ p[k] = CHUNK_SIZE - 1}

\* vertices holds the quad of a face of the block at world position wp
QuadAt(vertices, wp, face) ==
    LET first == Corners(face)[1]
    IN  \E i \in 1..Len(vertices) :
          /\ vertices[i][1] = 10 * wp[1] + first[1]
          /\ vertices[i][2] = 10 * wp[2] + first[2]
          /\ vertices[i][3] = 10 * wp[3] + first[3]
          /\ vertices[i][6] = first[6]
          /\ vertices[i][7] # 4

\* number of quads in vertices that are a face of the block at wp
QuadCount(vertices, wp) ==
    Cardinality({i \in 1..Len(vertices) :
        /\ i % 4 = 1
        /\ \E f \in 1..Len(Faces) :
              LET first == IF vertices[i][7] = 4 THEN WaterCorners[1] ELSE Corners(Faces[f])[1]
              IN  /\ vertices[i][1] = 10 * wp[1] + first[1]
                  /\ vertices[i][2] = 10 * wp[2] + first[2]
                  /\ vertices[i][3] = 10 * wp[3] + first[3]
                  /\ vertices[i][6] = first[6]})

\* the mesh of the chunk of World that holds world position wp
MeshAt(wp) ==
    world.chunks[<<wp[1] \div CHUNK_SIZE, wp[2] \div CHUNK_SIZE, wp[3] \div CHUNK_SIZE>>].vertices

\* world positions of the entries of visible_blocks of all chunks of World
AllVisible ==
    UNION {{WorldPos(key, p) : p \in DOMAIN world.chunks[key].visible_blocks} :
             key \in DOMAIN world.chunks}

\* world coordinates probed on one axis: on either side of every border of
\* the n chunks built from chunk lo on, the two outer borders included
Probe(lo, n) ==
    UNION {{k * CHUNK_SIZE - 1, k * CHUNK_SIZE} : k \in lo .. (lo + n)}

\* the corners of a chunk
CornerPositions == {0, CHUNK_SIZE - 1} \X {0, CHUNK_SIZE - 1} \X {0, CHUNK_SIZE - 1}

----------------------------------------------------------------------------
(* Properties *)

\* C1: for every chunk c of World and every local coordinate, get_block at
\* c*16 + local returns c.blocks[lx][ly][lz], the block generate_terrain
\* decided for those world coordinates, for negative coordinates too.
\* (Every local coordinate of every chunk in the World as main has built it;
\* while it is built, and while a chunk is out of it for its update, the
\* eight corners of every chunk.)
C1_GetBlockIsChunkBlock ==
    \A key \in DOMAIN world.chunks :
      \A p \in (IF pc = "generate" /\ GenDone THEN BlockPosition ELSE CornerPositions) :
        LET wp == WorldPos(key, p)
        IN  /\ BlockAt(world, wp) = world.chunks[key].blocks[p[1]][p[2]][p[3]]
            /\ BlockAt(world, wp) = DecideBlock(HeightOf(noise, wp[1], wp[3]),
                                                CaveValue(noise, wp[1], wp[2], wp[3]),
                                                wp[2])

C1_Witness ==
    /\ <<-1, 2, -1>> \in DOMAIN world.chunks
    /\ <<0, 2, 0>> \in DOMAIN world.chunks
    /\ get_block(world, -1, 47, -1) = "Stone"
    /\ world.chunks[<<-1, 2, -1>>].blocks[15][15][15] = "Stone"

\* C2: get_block is total: Air when the chunk of the coordinate is not a key
\* of World, and local indices within [0,16) when it is, so that the lookup
\* in blocks yields a block type.
C2_GetBlockTotal ==
    \A wx \in Probe(ChunkXLo, NumX), wy \in Probe(ChunkYLo, NumY),
       wz \in Probe(ChunkZLo, NumZ) :
        LET key == ChunkOfWorld(wx, wy, wz)
            l   == LocalOfWorld(wx, wy, wz)
        IN  IF key \in DOMAIN world.chunks
            THEN /\ l \in BlockPosition
                 /\ get_block(world, wx, wy, wz) \in BlockType
            ELSE get_block(world, wx, wy, wz) = "Air"

C2_Witness ==
    /\ <<-1, 2, -1>> \in DOMAIN world.chunks
    /\ <<0, 3, 0>> \notin DOMAIN world.chunks
    /\ get_block(world, -1, 47, -1) = "Water"
    /\ get_block(world, 1, 50, 1) = "Air"

\* C3: in main no Chunk.update begins before every chunk of the configured
\* range has finished generate_terrain and has been inserted in World: when
\* a chunk is held for its update, the loops of construction are over, every
\* position of the range is a key of World (or the held chunk's), and the
\* low-density cells of the noise field hold their generated blocks.
C3_NoUpdateBeforeAllInserted ==
    pc \in {"removed", "updated"} =>
        /\ genIdx = NumChunks
        /\ \A pos \in ChunkRange : pos \in DOMAIN world.chunks \cup {chunk.position}
        /\ \A wp \in noise.low :
             <<wp[1] \div CHUNK_SIZE, wp[2] \div CHUNK_SIZE, wp[3] \div CHUNK_SIZE>> \in ChunkRange
               => StoredBlock(chunk, world, wp) =
                    DecideBlock(HeightOf(noise, wp[1], wp[3]),
                                CaveValue(noise, wp[1], wp[2], wp[3]), wp[2])

C3_Witness ==
    /\ pc = "updated"
    /\ chunk.vertices # <<>>
    /\ Cardinality(DOMAIN world.chunks) = NumChunks - 1

\* C4 (as claimed): a position that is a key of World.chunks is a key of
\* World.chunks in every later state, also while its chunk is updated.
C4_ChunksNeverRemoved ==
    [][\A pos \in DOMAIN world.chunks : pos \in DOMAIN world'.chunks]_vars

\* C5 (as claimed): two adjacent identical solid blocks whose other
\* neighbours are all Air are meshed by main's update pass into exactly 10
\* quads, in the same chunk or across a chunk border.
C5_TwoBlocksTenQuads ==
    UpdatePassOver =>
        \A a \in AllVisible : \A b \in AllVisible \cap Neighbours(a) :
            ( /\ BlockAt(world, a) \in Solid
              /\ BlockAt(world, a) = BlockAt(world, b)
              /\ \A n \in (Neighbours(a) \cup Neighbours(b)) \ {a, b} :
                    BlockAt(world, n) = "Air" )
            => QuadCount(MeshAt(a), a) + QuadCount(MeshAt(b), b) = 10

\* C6 (as claimed): no quad is emitted for the face between two adjacent
\* Water blocks: every Water top quad in a mesh belongs to a Water block
\* whose upper neighbour is not Water.
C6_NoQuadBetweenWater ==
    UpdatePassOver =>
        \A key \in DOMAIN world.chunks :
            LET vertices == world.chunks[key].vertices
            IN  \A i \in 1..Len(vertices) :
                  (vertices[i][7] = 4 /\ vertices[i][6] = 8) =>
                      LET wp == <<(vertices[i][1] + 5) \div 10,
                                  (vertices[i][2] - 4) \div 10,
                                  (vertices[i][3] + 5) \div 10>>
                      IN  ~ ( /\ BlockAt(world, wp) = "Water"
                              /\ BlockAt(world, <<wp[1], wp[2] + 1, wp[3]>>) = "Water" )

\* C7 (as claimed): after Chunk.update, visible_blocks holds exactly the
\* non-Air blocks of the chunk with at least one face exposed under the
\* visibility rule applied to their true neighbours.
C7_VisibleBlocksExact ==
    UpdatePassOver =>
        \A key \in DOMAIN world.chunks :
            LET c == world.chunks[key]
            IN  DOMAIN c.visible_blocks =
                  {p \in BlockPosition :
                     /\ c.blocks[p[1]][p[2]][p[3]] # "Air"
                     /\ \E n \in Neighbours(WorldPos(key, p)) :
                          FaceRule(c.blocks[p[1]][p[2]][p[3]], BlockAt(world, n))}

\* C8: when a chunk is meshed, the neighbour across a chunk border of a block
\* on that border is the block at the wrapped local position of the adjacent
\* chunk if that chunk is in World, and Air if it is not; the quad of a solid
\* border block towards it is emitted iff that neighbour is Air or Water, in
\* each of the six directions.
C8_BorderNeighbourAcross ==
    pc = "updated" =>
        \A p \in BorderPositions :
            chunk.blocks[p[1]][p[2]][p[3]] \in Solid =>
                \A f \in 1..Len(Faces) :
                    LET d    == FaceDir(Faces[f])
                        q    == Plus(p, d)
                        nkey == Plus(chunk.position, d)
                        nl   == <<q[1] % CHUNK_SIZE, q[2] % CHUNK_SIZE, q[3] % CHUNK_SIZE>>
                        nb   == IF nkey \in DOMAIN world.chunks
                                THEN world.chunks[nkey].blocks[nl[1]][nl[2]][nl[3]]
                                ELSE "Air"
                    IN  q \notin BlockPosition =>
                          ( QuadAt(chunk.vertices, WorldPos(chunk.position, p), Faces[f])
                              <=> nb \in {"Air", "Water"} )

C8_Witness ==
    /\ pc = "updated"
    /\ chunk.position = <<-1, 2, -1>>
    /\ chunk.blocks[15][15][15] = "Stone"
    /\ <<0, 2, -1>> \in DOMAIN world.chunks
    /\ world.chunks[<<0, 2, -1>>].blocks[0][15][15] = "Water"
    /\ QuadAt(chunk.vertices, <<-1, 47, -1>>, "right")
    /\ world.chunks[<<-1, 3, -1>>].blocks[15][0][15] = "Air"
    /\ QuadAt(chunk.vertices, <<-1, 47, -1>>, "top")

C8_WitnessSuppressed ==
    /\ pc = "updated"
    /\ chunk.position = <<0, 2, -1>>
    /\ chunk.blocks[0][15][15] = "Stone"
    /\ world.chunks[<<-1, 2, -1>>].blocks[15][15][15] = "Stone"
    /\ ~QuadAt(chunk.vertices, <<0, 47, -1>>, "left")

\* C9: a single solid block all six of whose neighbours are Air is meshed by
\* Chunk.update into exactly 6 quads, one per direction: 24 vertices and 12
\* triangles.
C9_IsolatedBlockSixQuads ==
    pc = "updated" =>
        \A p \in BlockPosition :
            LET wp == WorldPos(chunk.position, p)
            IN  ( /\ chunk.blocks[p[1]][p[2]][p[3]] \in Solid
                  /\ \A f \in 1..Len(Faces) :
                        StoredBlock(chunk, world, Plus(wp, FaceDir(Faces[f]))) = "Air" )
                => /\ p \in DOMAIN chunk.visible_blocks
                   /\ QuadCount(chunk.vertices, wp) = 6
                   /\ \A f \in 1..Len(Faces) : QuadAt(chunk.vertices, wp, Faces[f])
                   /\ DOMAIN chunk.visible_blocks = {p} =>
                        /\ Len(chunk.vertices) = 24
                        /\ chunk.vertex_count = 24
                        /\ Len(chunk.indices) = 12

C9_Witness ==
    /\ pc = "updated"
    /\ chunk.position = <<-1, 3, -1>>
    /\ DOMAIN chunk.visible_blocks = {<<15, 12, 15>>}
    /\ chunk.blocks[15][12][15] = "Grass"
    /\ \A f \in 1..Len(Faces) :
          StoredBlock(chunk, world, Plus(<<-1, 60, -1>>, FaceDir(Faces[f]))) = "Air"
    /\ Len(chunk.vertices) = 24
    /\ Len(chunk.indices) = 12

\* C10 (as claimed): running Chunk.update a second time on the same chunk,
\* blocks and World unchanged, leaves the same vertices and indices, element
\* for element.
C10_UpdateTwiceSameBuffers ==
    [][(pc = "updated" /\ pc' = "updated") =>
          (chunk'.vertices = chunk.vertices /\ chunk'.indices = chunk.indices)]_vars


----------------------------------------------------------------------------
(* Terrain generation *)

\* the cells of the chunk at key that a noise field singles out: the cells of
\* low density and the columns with a height of their own, in local
\* coordinates
FieldCells(nf, key) ==
    LET inside(v, k) == v \div CHUNK_SIZE = k
        low  == {c \in nf.low : inside(c[1], key[1]) /\ inside(c[2], key[2])
                                    /\ inside(c[3], key[3])}
        cols == {col \in DOMAIN nf.hcol : inside(col[1], key[1]) /\ inside(col[2], key[3])}
    IN  {<<c[1] % CHUNK_SIZE, c[2] % CHUNK_SIZE, c[3] % CHUNK_SIZE>> : c \in low}
            \cup {<<col[1] % CHUNK_SIZE, y, col[2] % CHUNK_SIZE>> : col \in cols, y \in Local}

\* the decision table of the terrain, from surface height H, cave density d
\* (in tenths) and world height y
TerrainTable(H, d, y) ==
    IF H <= y /\ y < 60
    THEN "Water"
    ELSE IF y >= H /\ y >= 60
         THEN "Air"
         ELSE IF d > 6
              THEN "Air"
              ELSE IF y = H - 1
                   THEN "Grass"
                   ELSE IF y > H - 4 THEN "Dirt" ELSE "Stone"

\* C11: every cell of a generated chunk holds the block of the decision
\* table: Water if H <= y < 60; Air if y >= H and y >= 60; below the surface
\* Air if d > 0.6, otherwise Grass if y = H-1, otherwise Dirt if y > H-4,
\* otherwise Stone.  So no Water cell has y < H or y >= 60, and a cell with
\* H <= y < 60 is Water whatever its cave density.  (Every cell of a chunk
\* generated into an empty World is compared; later, the cells the noise
\* field singles out and the corners.)
C11_TerrainDecisionTable ==
    chunk # NoChunk =>
        \A p \in (IF world = NewWorld
                  THEN BlockPosition
                  ELSE FieldCells(noise, chunk.position) \cup CornerPositions) :
            LET wp == WorldPos(chunk.position, p)
                H  == HeightOf(noise, wp[1], wp[3])
                d  == CaveValue(noise, wp[1], wp[2], wp[3])
                b  == chunk.blocks[p[1]][p[2]][p[3]]
            IN  /\ b = TerrainTable(H, d, wp[2])
                /\ b = "Water" => (wp[2] >= H /\ wp[2] < 60)
                /\ (H <= wp[2] /\ wp[2] < 60) => b = "Water"

\* a generated chunk with a Water cell of high cave density, and below the
\* surface a carved cell, a Grass, a Dirt and a Stone cell
C11_Witness ==
    /\ chunk # NoChunk
    /\ chunk.position = <<-1, 3, -1>>
    /\ noise = TerraceField
    /\ CaveValue(noise, -1, 59, -1) > CAVE_THRESHOLD
    /\ chunk.blocks[15][11][15] = "Water"
    /\ chunk.blocks[15][9][15] = "Grass"
    /\ chunk.blocks[15][8][15] = "Air"
    /\ chunk.blocks[15][7][15] = "Dirt"
    /\ chunk.blocks[15][4][14] = "Stone"
    /\ chunk.blocks[15][12][15] = "Air"


----------------------------------------------------------------------------
(* The flat chunk *)

\* the chunks a caller has at hand: the chunks of World and the chunk held
HeldChunks == IF chunk # NoChunk THEN {chunk} ELSE {}

Chunks == HeldChunks \cup {world.chunks[key] : key \in DOMAIN world.chunks}

\* Chunk::update has run on c and found blocks to draw
Meshed(c) == c.visible_blocks # <<>>

\* the first vertex of each quad of a vertex buffer
QuadSet(vertices) == {vertices[i] : i \in {j \in 1..Len(vertices) : j % 4 = 1}}

\* the first vertex of the quad of a face of the block of a type at local
\* position p of a chunk at key
FaceQuad(key, p, block_type, face) ==
    LET wp == WorldPos(key, p)
    IN  Quad(Corners(face), 10 * wp[1], 10 * wp[2], 10 * wp[3],
             TextureLayer(block_type, face))[1]

\* C12: the chunk at (0,0,0), the only chunk of the World, in a flat world of
\* surface height 8 without caves: its cells are Stone for y <= 4, Dirt for
\* y in {5,6}, Grass for y = 7 and Air for y >= 8, and its mesh is exactly
\* the top face of each of the 256 blocks at y = 7 plus the side faces, on
\* the four lateral borders of the chunk, of the blocks with y in 0..7.
C12_FlatChunkMesh ==
    \A c \in Chunks :
        (noise = FlatField /\ DOMAIN world.chunks \subseteq {c.position} /\ Meshed(c)) =>
            LET type(y) == IF y <= 4 THEN "Stone"
                           ELSE IF y <= 6 THEN "Dirt"
                           ELSE IF y = 7 THEN "Grass" ELSE "Air"
                tops  == {FaceQuad(c.position, <<x, 7, z>>, "Grass", "top") : x, z \in Local}
                side(p, face) == FaceQuad(c.position, p, type(p[2]), face)
                sides == {side(<<0, y, z>>, "left") : y \in 0..7, z \in Local}
                           \cup {side(<<CHUNK_SIZE - 1, y, z>>, "right") : y \in 0..7, z \in Local}
                           \cup {side(<<x, y, 0>>, "back") : x \in Local, y \in 0..7}
                           \cup {side(<<x, y, CHUNK_SIZE - 1>>, "front") : x \in Local, y \in 0..7}
            IN  /\ c.position = <<0, 0, 0>>
                /\ \A p \in BlockPosition : c.blocks[p[1]][p[2]][p[3]] = type(p[2])
                /\ Len(c.vertices) = 4 * Cardinality(tops \cup sides)
                /\ QuadSet(c.vertices) = tops \cup sides

\* what fails in C12, one part at a time: the cells above the surface, the
\* number of quads of the blocks below it, the faces between two of them
C12_AirAboveSurface ==
    \A c \in Chunks :
        (noise = FlatField /\ Meshed(c)) =>
            \A p \in BlockPosition : p[2] >= 8 => c.blocks[p[1]][p[2]][p[3]] = "Air"

C12_SolidQuadCount ==
    \A c \in Chunks :
        (noise = FlatField /\ Meshed(c)) =>
            Cardinality({v \in QuadSet(c.vertices) : v[7] # 4}) = 256 + 4 * 8 * CHUNK_SIZE

C12_NoInnerFace ==
    \A c \in Chunks :
        (noise = FlatField /\ Meshed(c)) =>
            FaceQuad(c.position, <<3, 3, 3>>, "Stone", "right") \notin QuadSet(c.vertices)

C12_NoBottomFace ==
    \A c \in Chunks :
        (noise = FlatField /\ Meshed(c)) =>
            FaceQuad(c.position, <<3, 0, 3>>, "Stone", "bottom") \notin QuadSet(c.vertices)


----------------------------------------------------------------------------
(* Terrain as a function of world coordinates *)

\* the columns of a chunk compared between chunks: those the noise field
\* gives a height of their own, and the corner columns
ColumnsOf(nf, key) ==
    {<<col[1] % CHUNK_SIZE, col[2] % CHUNK_SIZE>> :
        col \in {k \in DOMAIN nf.hcol : k[1] \div CHUNK_SIZE = key[1]
                                          /\ k[2] \div CHUNK_SIZE = key[3]}}
      \cup ({0, CHUNK_SIZE - 1} \X {0, CHUNK_SIZE - 1})

----------------------------------------------------------------------------
(* Collection pass *)

\* C14: in the collection pass every index of all_indices is smaller than
\* the number of vertices of all_vertices, and each iteration appends the
\* triangles of its chunk so that every triangle, with the offset added,
\* refers to the same three vertices as it did in the chunk's own buffers;
\* what was collected before stays as it was.
C14_CollectedTrianglesKeepVertices ==
    [][(pc = "collect" /\ positions # <<>>) =>
        LET c == world.chunks[Head(positions)]
            n == Len(all_indices)
        IN  /\ Len(all_indices') = n + Len(c.indices)
            /\ \A i \in 1..n : all_indices'[i] = all_indices[i]
            /\ \A i \in 1..Len(all_vertices) : all_vertices'[i] = all_vertices[i]
            /\ \A i \in 1..Len(all_indices') : \A k \in 1..3 :
                  all_indices'[i][k] < Len(all_vertices')
            /\ \A j \in 1..Len(c.indices) : \A k \in 1..3 :
                  all_vertices'[all_indices'[n + j][k] + 1]
                      = c.vertices[c.indices[j][k] + 1]]_vars

\* the collection pass is over and has appended two chunks with a mesh, the
\* second at an offset
C14_Witness ==
    /\ pc = "done"
    /\ \E a, b \in DOMAIN world.chunks :
          /\ a # b
          /\ world.chunks[a].vertices # <<>>
          /\ world.chunks[b].vertices # <<>>
          /\ Len(all_vertices) = Len(world.chunks[a].vertices) + Len(world.chunks[b].vertices)
          /\ \E i \in 1..Len(all_indices) : all_indices[i][1] >= Len(world.chunks[a].vertices)


----------------------------------------------------------------------------
(* Indices of a chunk *)

\* the two triangles of the quad whose first vertex has index i
QuadTriangles(i) == << <<i, i + 1, i + 2>>, <<i + 2, i + 3, i>> >>

\* C15: for a vertex count that is a multiple of 4,
\* generate_indices_for_vertices(offset, count) returns, for the quads
\* i = 0, 4, 8, ... in order, the triangles (offset+i, offset+i+1, offset+i+2)
\* and (offset+i+2, offset+i+3, offset+i); and in a chunk's buffers after
\* update the triangles of the q-th quad index the four vertices of that
\* quad, which are the four corners of one face of one block.
C15_TrianglesIndexOwnQuad ==
    \A c \in Chunks :
        /\ \A m \in 0..6 :
              LET tris == generate_indices_for_vertices(c.vertex_count, 4 * m)
              IN  /\ Len(tris) = 2 * m
                  /\ \A q \in 0..(m - 1) :
                        /\ tris[2 * q + 1] = QuadTriangles(c.vertex_count + 4 * q)[1]
                        /\ tris[2 * q + 2] = QuadTriangles(c.vertex_count + 4 * q)[2]
        /\ c.vertex_count = Len(c.vertices)
        /\ Len(c.vertices) % 4 = 0
        /\ 2 * Len(c.indices) = Len(c.vertices)
        /\ \A q \in 0..((Len(c.vertices) \div 4) - 1) :
              /\ c.indices[2 * q + 1] = QuadTriangles(4 * q)[1]
              /\ c.indices[2 * q + 2] = QuadTriangles(4 * q)[2]
              /\ c.vertices[4 * q + 1][6] % 4 = 0
              /\ \A k \in 1..3 :
                    /\ c.vertices[4 * q + 1 + k][6] = c.vertices[4 * q + 1][6] + k
                    /\ c.vertices[4 * q + 1 + k][7] = c.vertices[4 * q + 1][7]
                    /\ \A d \in 1..3 :
                          Abs(c.vertices[4 * q + 1 + k][d] - c.vertices[4 * q + 1][d]) <= 10

\* a chunk with the quads of more than one block: the triangles of the last
\* quad start past the vertices of the first block
C15_Witness ==
    \E c \in Chunks :
        /\ Len(c.vertices) > 6 * 4
        /\ c.indices[Len(c.indices)] =
              <<Len(c.vertices) - 2, Len(c.vertices) - 1, Len(c.vertices) - 4>>


----------------------------------------------------------------------------
(* World::add_chunk *)

\* C16: add_chunk stores the chunk under its own position: afterwards World
\* holds exactly that chunk there, whether or not it held a chunk at that
\* position before (the last insert wins), every other entry is unchanged,
\* and every chunk of World is stored under its own position, one for each
\* position.
C16_AddChunkReplaces ==
    [][(chunk # NoChunk /\ chunk' = NoChunk) =>
        /\ DOMAIN world'.chunks = (DOMAIN world.chunks) \cup {chunk.position}
        /\ world'.chunks[chunk.position] = chunk
        /\ \A key \in (DOMAIN world.chunks) \ {chunk.position} :
              world'.chunks[key] = world.chunks[key]
        /\ \A key \in DOMAIN world'.chunks : world'.chunks[key].position = key]_vars

\* add_chunk has filled World, and the caller holds a chunk for a position
\* at which World holds a different chunk (one of the two is meshed)
C16_Witness ==
    /\ pc = "api"
    /\ chunk # NoChunk
    /\ chunk.position \in DOMAIN world.chunks
    /\ world.chunks[chunk.position] # chunk
    /\ Cardinality(DOMAIN world.chunks) >= 2


----------------------------------------------------------------------------
(* What Chunk::update writes *)

\* C17: update leaves the blocks and the position of its chunk, and World
\* with every other chunk, unchanged; and a chunk of World keeps all its
\* fields, its cached mesh among them, through every step that is not an
\* add_chunk at its own position: when a neighbouring chunk is inserted,
\* replaced or taken out, the mesh stays as it was until update is called
\* on the chunk again.
C17_UpdateWritesOwnMeshOnly ==
    [][/\ (chunk # NoChunk /\ chunk' # NoChunk) =>
              /\ chunk'.blocks = chunk.blocks
              /\ chunk'.position = chunk.position
              /\ world' = world
       /\ \A key \in (DOMAIN world.chunks) \cap (DOMAIN world'.chunks) :
              (chunk = NoChunk \/ chunk.position # key) =>
                  world'.chunks[key] = world.chunks[key]]_vars

\* a chunk meshed before its lateral neighbour was inserted: its mesh still
\* holds the face towards a block that World now holds
C17_Witness ==
    /\ pc = "api"
    /\ DOMAIN world.chunks = {<<-1, 3, -1>>, <<0, 3, -1>>}
    /\ BlockAt(world, <<-1, 60, -1>>) = "Grass"
    /\ BlockAt(world, <<0, 60, -1>>) = "Grass"
    /\ QuadAt(world.chunks[<<-1, 3, -1>>].vertices, <<-1, 60, -1>>, "right")
    /\ ~should_render_face(world, -1, 60, -1, "right")
    /\ Meshed(world.chunks[<<0, 3, -1>>])


----------------------------------------------------------------------------
(* Chunk::update as a recomputation *)

C18_SameOutcomesAsFresh ==
    [][(chunk # NoChunk /\ chunk' # NoChunk) =>
          /\ update(chunk, world) =
                update([chunk EXCEPT !.visible_blocks = <<>>, !.vertices = <<>>,
                                     !.indices = <<>>, !.vertex_count = 0], world)
          /\ \A c \in update(chunk', world') :
                /\ c.visible_blocks = chunk'.visible_blocks
                /\ QuadSet(c.vertices) = QuadSet(chunk'.vertices)
                /\ c.vertex_count = chunk'.vertex_count]_vars


----------------------------------------------------------------------------
(* should_render_face *)

\* the world positions at which the faces are tested: the cells the noise
\* field singles out, the cells around the surface and around the water
\* level of the columns with a height of their own, and their neighbours
ProbeCells ==
    LET cells == noise.low \cup
                   {<<col[1], y, col[2]>> :
                       col \in DOMAIN noise.hcol,
                       y \in {noise.hcol[c] + d : c \in DOMAIN noise.hcol, d \in {-1, 0}}
                               \cup {59, 60}}
    IN  cells \cup UNION {Neighbours(wp) : wp \in cells}

----------------------------------------------------------------------------
(* The quads of Water *)

\* the Water entries of visible_blocks of c whose top face World w lets draw
DrawnWater(c, w) ==
    {p \in DOMAIN c.visible_blocks :
        /\ c.visible_blocks[p] = "Water"
        /\ LET wp == WorldPos(c.position, p)
           IN  should_render_face(w, wp[1], wp[2], wp[3], "top")}

\* C20: after update the quads of texture layer 4 of a chunk are the top
\* quads, at y + 0.4, of the Water entries of visible_blocks whose top face
\* is rendered, one quad each; every other quad is a face of a Grass, Dirt
\* or Stone entry and has another layer.  So Water has no side and no bottom
\* quad, and a Water entry whose top face is not rendered has no vertex and
\* no index.
C20_WaterTopQuadOnly ==
    [][(chunk # NoChunk /\ chunk' # NoChunk) =>
        LET c      == chunk'
            qs     == QuadSet(c.vertices)
            waterq == {v \in qs : v[7] = 4}
            solids == {p \in DOMAIN c.visible_blocks : c.visible_blocks[p] \in Solid}
        IN  /\ waterq = {LET wp == WorldPos(c.position, p)
                         IN  <<10 * wp[1] - 5, 10 * wp[2] + 4, 10 * wp[3] - 5, 0, 0, 8, 4, 1>> :
                            p \in DrawnWater(c, world')}
            /\ (qs \ waterq) \subseteq
                  {FaceQuad(c.position, p, c.visible_blocks[p], Faces[f]) :
                      p \in solids, f \in 1..Len(Faces)}
            /\ \A p \in solids : \A f \in 1..Len(Faces) :
                  TextureLayer(c.visible_blocks[p], Faces[f]) # 4
            /\ Len(c.vertices) = 4 * Cardinality(qs)
            /\ 2 * Len(c.indices) = Len(c.vertices)
            /\ \A i \in 1..Len(c.vertices) :
                  (i % 4 = 1 /\ c.vertices[i][7] = 4) =>
                      /\ c.vertices[i + 1] = [c.vertices[i] EXCEPT ![3] = @ + 10, ![4] = 1, ![6] = 9]
                      /\ c.vertices[i + 2] = [c.vertices[i] EXCEPT ![1] = @ + 10, ![3] = @ + 10,
                                                                   ![4] = 1, ![5] = 1, ![6] = 10]
                      /\ c.vertices[i + 3] = [c.vertices[i] EXCEPT ![1] = @ + 10, ![5] = 1, ![6] = 11]]_vars

\* update has run on a chunk with a column of Water: the entries below the
\* top one are in visible_blocks with their top face not rendered, and the
\* mesh is the one top quad of the top entry
C20_Witness ==
    /\ pc = "api"
    /\ chunk # NoChunk
    /\ chunk.position = <<-1, 3, -1>>
    /\ chunk.visible_blocks # <<>>
    /\ \A y \in 0..11 : <<15, y, 15>> \in DOMAIN chunk.visible_blocks
                          /\ chunk.visible_blocks[<<15, y, 15>>] = "Water"
    /\ ~should_render_face(world, -1, 48, -1, "top")
    /\ DrawnWater(chunk, world) = {<<15, 11, 15>>}
    /\ Len(chunk.vertices) = 4
    /\ Len(chunk.indices) = 2
    /\ chunk.vertices[1] = <<-15, 594, -15, 0, 0, 8, 4, 1>>


----------------------------------------------------------------------------
(* Planes and winding of the quads *)

Sub(a, b) == <<a[1] - b[1], a[2] - b[2], a[3] - b[3]>>

Cross(a, b) ==
    <<a[2] * b[3] - a[3] * b[2], a[3] * b[1] - a[1] * b[3], a[1] * b[2] - a[2] * b[1]>>

\* the normal (v1-v0) x (v2-v0) of the triangle of three vertices
Normal(v0, v1, v2) == Cross(Sub(v1, v0), Sub(v2, v0))

\* n points in the direction of the unit vector dir of an axis: a positive
\* multiple of it
PointsTo(n, dir) ==
    \A a \in 1..3 : IF dir[a] # 0 THEN n[a] * dir[a] > 0 ELSE n[a] = 0

\* the world positions at which generate_cube_vertices is applied: the
\* cells the noise field singles out and their neighbours
CubeCells == noise.low \cup UNION {Neighbours(wp) : wp \in noise.low}

\* the faces generate_cube_vertices emits for a block of a type at wp, in
\* the order it emits them: those of the faces it tests that World lets draw
EmittedFaces(w, wp, block_type) ==
    LET tested == IF block_type = "Water" THEN <<"top">>
                  ELSE IF block_type = "Air" THEN <<>> ELSE Faces
    IN  SelectSeq(tested, LAMBDA f : should_render_face(w, wp[1], wp[2], wp[3], f))

\* the quads a block of a type at wp emits lie at distance d (in tenths)
\* from the block centre, on the side of the neighbour tested for their
\* face, and both triangles of each quad are counter-clockwise seen from
\* that neighbour
QuadsFaceOutward(w, wp, block_type, d) ==
    LET cube  == generate_cube_vertices(10 * wp[1], 10 * wp[2], 10 * wp[3],
                                        block_type, w, wp[1], wp[2], wp[3])
        faces == EmittedFaces(w, wp, block_type)
    IN  /\ Len(cube) = 4 * Len(faces)
        /\ \A q \in 1..Len(faces) :
              LET dir == CASE faces[q] = "front"  -> <<0, 0, 1>>
                           [] faces[q] = "back"   -> <<0, 0, -1>>
                           [] faces[q] = "top"    -> <<0, 1, 0>>
                           [] faces[q] = "bottom" -> <<0, -1, 0>>
                           [] faces[q] = "right"  -> <<1, 0, 0>>
                           [] faces[q] = "left"   -> <<-1, 0, 0>>
                  v(k) == cube[4 * (q - 1) + k + 1]
              IN  /\ \A k \in 0..3 : \A a \in 1..3 :
                        IF dir[a] # 0
                        THEN v(k)[a] = 10 * wp[a] + d * dir[a]
                        ELSE Abs(v(k)[a] - 10 * wp[a]) = 5
                  /\ PointsTo(Normal(v(0), v(1), v(2)), dir)
                  /\ PointsTo(Normal(v(2), v(3), v(0)), dir)

\* World differs from its predecessor in the blocks get_block returns: a
\* chunk was inserted by the construction loops or taken out for its update
\* (the blocks of World are the same again once the chunk is put back)
WorldIsNew == pc \in {"generate", "updated"}

\* C21 as stated: every quad emitted for a face, of whatever block type,
\* lies in the plane of the cube side that faces the neighbour tested for
\* that face (at 0.5 from the block centre), and both its triangles are
\* counter-clockwise seen from that neighbour.
C21_QuadsInCubePlanes ==
    WorldIsNew =>
        \A wp \in CubeCells : \A block_type \in BlockType :
            QuadsFaceOutward(world, wp, block_type, 5)

\* C21 amended: every quad of a Grass, Dirt or Stone block lies in the plane
\* of the cube side that faces the neighbour tested for its face; the top
\* quad of a Water block lies 0.1 below that plane, at y + 0.4; and both
\* triangles of every quad are counter-clockwise seen from that neighbour.
C21_SolidQuadsInCubePlanes ==
    WorldIsNew =>
        \A wp \in CubeCells : \A block_type \in BlockType :
            QuadsFaceOutward(world, wp, block_type, IF block_type = "Water" THEN 4 ELSE 5)

\* update has meshed a chunk, and at the cells probed a solid block emits
\* all six quads and a Water block its top quad
C21_Witness ==
    /\ pc = "updated"
    /\ \E c \in Chunks : Len(c.vertices) >= 6 * 4
    /\ \E wp \in CubeCells :
          /\ Len(EmittedFaces(world, wp, "Stone")) = 6
          /\ Len(generate_cube_vertices(10 * wp[1], 10 * wp[2], 10 * wp[3], "Water", world,
                                        wp[1], wp[2], wp[3])) = 4


----------------------------------------------------------------------------
(* Attributes of the vertices of solid blocks *)

\* C22: every vertex a Grass, Dirt or Stone block emits has both UV
\* components in {0,1}, the four vertices of a quad covering the four
\* corners of the unit square; a scale of 1; a corner index fixed by its
\* face (front 0-3, back 4-7, top 8-11, bottom 12-15, right 16-19, left
\* 20-23), so that the index grows strictly along the vertices of the
\* block; and a texture layer fixed by block type and face: Grass top 0,
\* Grass sides 1, Grass bottom 2, Dirt 2, Stone 3.
C22_SolidVertexAttributes ==
    WorldIsNew =>
        \A wp \in CubeCells : \A block_type \in {"Grass", "Dirt", "Stone"} :
            LET cube  == generate_cube_vertices(10 * wp[1], 10 * wp[2], 10 * wp[3],
                                                block_type, world, wp[1], wp[2], wp[3])
                faces == EmittedFaces(world, wp, block_type)
                first(f) == CASE f = "front"  -> 0
                              [] f = "back"   -> 4
                              [] f = "top"    -> 8
                              [] f = "bottom" -> 12
                              [] f = "right"  -> 16
                              [] f = "left"   -> 20
                layer(f) == CASE block_type = "Dirt"  -> 2
                              [] block_type = "Stone" -> 3
                              [] block_type = "Grass" /\ f = "top"    -> 0
                              [] block_type = "Grass" /\ f = "bottom" -> 2
                              [] OTHER -> 1
            IN  /\ Len(cube) = 4 * Len(faces)
                /\ \A i \in 1..(Len(cube) - 1) : cube[i][6] < cube[i + 1][6]
                /\ \A q \in 1..Len(faces) :
                      /\ {<<cube[4 * (q - 1) + k][4], cube[4 * (q - 1) + k][5]>> : k \in 1..4}
                            = {0, 1} \X {0, 1}
                      /\ \A k \in 1..4 :
                            LET v == cube[4 * (q - 1) + k]
                            IN  /\ v[6] = first(faces[q]) + k - 1
                                /\ v[6] \in 0..23
                                /\ v[7] = layer(faces[q])
                                /\ v[8] = 1

\* a chunk is being updated: at the cells probed a Grass block emits five
\* quads at one cell and six at another, and the mesh update has built
\* holds quads of the three layers of Grass
C22_Witness ==
    /\ pc = "updated"
    /\ \E wp \in CubeCells : Len(EmittedFaces(world, wp, "Grass")) = 5
    /\ \E wp \in CubeCells : Len(EmittedFaces(world, wp, "Grass")) = 6
    /\ \A l \in 0..2 : \E i \in 1..Len(chunk.vertices) : chunk.vertices[i][7] = l


----------------------------------------------------------------------------
(* The buffers update leaves behind *)

\* C23: after every update, whatever the blocks of the chunk and whatever
\* World holds: vertex_count is the length of vertices, a multiple of 4;
\* indices holds two triangles for each quad; every index is smaller than
\* vertex_count; and the three indices of a triangle lie in one group of
\* four consecutive vertices.
C23_BuffersWellFormed ==
    [][(chunk # NoChunk /\ chunk' # NoChunk) =>
          /\ chunk'.vertex_count = Len(chunk'.vertices)
          /\ Len(chunk'.vertices) % 4 = 0
          /\ 2 * Len(chunk'.indices) = Len(chunk'.vertices)
          /\ \A i \in 1..Len(chunk'.indices) :
                LET tri == chunk'.indices[i]
                IN  /\ \A k \in 1..3 : tri[k] >= 0 /\ tri[k] < chunk'.vertex_count
                    /\ tri[1] \div 4 = tri[2] \div 4
                    /\ tri[2] \div 4 = tri[3] \div 4]_vars

\* update has left a mesh of several blocks, built while World held another
\* chunk
C23_Witness ==
    /\ pc = "api"
    /\ chunk # NoChunk
    /\ world # NewWorld
    /\ Len(chunk.vertices) > 6 * 4
    /\ chunk.vertex_count = Len(chunk.vertices)
    /\ chunk.indices[Len(chunk.indices)][2] = chunk.vertex_count - 1


----------------------------------------------------------------------------
(* World during the update of a chunk *)

\* C24: while the update pass of main runs update for a chunk, that chunk is
\* absent from World.chunks and every other chunk of the range is present;
\* so get_block returns Air for the world coordinates inside the chunk (the
\* cells the noise field singles out, the corners, and the entries of
\* visible_blocks, which are the blocks whose faces are tested), whatever
\* the chunk holds there.
C24_UpdatedChunkAbsent ==
    pc \in {"removed", "updated"} =>
        /\ chunk # NoChunk
        /\ chunk.position = Head(positions)
        /\ chunk.position \notin DOMAIN world.chunks
        /\ DOMAIN world.chunks = ChunkRange \ {chunk.position}
        /\ \A p \in FieldCells(noise, chunk.position) \cup CornerPositions
                      \cup DOMAIN chunk.visible_blocks :
              LET wp == WorldPos(chunk.position, p)
              IN  get_block(world, wp[1], wp[2], wp[3]) = "Air"

\* update has run for a chunk with a block to draw: World returns Air at
\* the coordinate of that block, and holds all chunks but this one
C24_Witness ==
    /\ pc = "updated"
    /\ Cardinality(DOMAIN world.chunks) = NumChunks - 1
    /\ \E p \in DOMAIN chunk.visible_blocks :
          LET wp == WorldPos(chunk.position, p)
          IN  /\ chunk.blocks[p[1]][p[2]][p[3]] \in Solid
              /\ get_block(world, wp[1], wp[2], wp[3]) = "Air"


----------------------------------------------------------------------------
(* The update pass as a whole *)

InPass == pc \in {"update_pass", "removed", "updated"}

\* the chunk of a position, wherever the pass holds it
ChunkOf(pos) ==
    IF chunk # NoChunk /\ chunk.position = pos THEN chunk ELSE world.chunks[pos]

MeshOf(pos) ==
    LET c == ChunkOf(pos)
    IN  <<c.visible_blocks, c.vertices, c.indices, c.vertex_count>>

HeldKeys == DOMAIN world.chunks \cup {c.position : c \in HeldChunks}

\* the positions still to come are distinct keys of the range; the chunks
\* still to come are as constructed, and the others have been through
\* update (their blocks at the cells looked at are in visible_blocks)
PassProgress ==
    InPass =>
        /\ \A i, j \in 1..Len(positions) : i # j => positions[i] # positions[j]
        /\ {positions[i] : i \in 1..Len(positions)} \subseteq ChunkRange
        /\ HeldKeys = ChunkRange
        /\ pc = "update_pass" => chunk = NoChunk /\ DOMAIN world.chunks = ChunkRange
        /\ \A pos \in ChunkRange :
              LET c == ChunkOf(pos)
              IN  IF \/ \A i \in 1..Len(positions) : positions[i] # pos
                     \/ pc = "updated" /\ pos = Head(positions)
                  THEN \A p \in FieldCells(noise, pos) \cup CornerPositions :
                          c.blocks[p[1]][p[2]][p[3]] # "Air"
                              => p \in DOMAIN c.visible_blocks
                  ELSE /\ c.visible_blocks = <<>>
                       /\ c.vertices = <<>>
                       /\ c.indices = <<>>
                       /\ c.vertex_count = 0

\* C25: over the update pass of main the key set of World.chunks stays the
\* configured range (the chunk taken out is put back under its position),
\* the blocks of every chunk stay what they were before the pass, and every
\* chunk is updated exactly once: a mesh changes only in the update of the
\* position the pass is on, the pass leaves a position only after that
\* update, and it never comes back to one; when the pass has finished all
\* chunks are in World and all have been updated.
C25_PassKeepsWorld ==
    [][ /\ PassProgress'
        /\ InPass =>
              /\ HeldKeys' = HeldKeys
              /\ \A pos \in ChunkRange :
                    /\ ChunkOf(pos)'.position = pos
                    /\ ChunkOf(pos)'.blocks = ChunkOf(pos).blocks
                    /\ MeshOf(pos)' # MeshOf(pos) =>
                          pc = "removed" /\ pc' = "updated" /\ pos = Head(positions)
              /\ InPass' =>
                    \/ positions' = positions
                    \/ pc = "updated" /\ positions' = Tail(positions)
      ]_vars

\* the pass has finished: all chunks are back in World, and one of them has
\* come out of update with a block to draw
C25_Witness ==
    /\ pc = "update_pass"
    /\ positions = <<>>
    /\ DOMAIN world.chunks = ChunkRange
    /\ \E pos \in ChunkRange :
          /\ world.chunks[pos].vertex_count > 0
          /\ \E p \in FieldCells(noise, pos) : p \in DOMAIN world.chunks[pos].visible_blocks

============================================================================
